---- MODULE Spec2Model ----
(***************************************************************************)
(* Graph assembly and reduction engine of immune_homologues: the builders  *)
(* (make_graph, make_paralog_graph, create_orthologs_graph),               *)
(* combine_graphs, filter_by_distance, get_paths, the two                  *)
(* get_inner_subgraph, read_proteins_file and the runs of main             *)
(* (string_db_combined_graph.py, add_paralogs.py, add_orthologs.py,        *)
(* string_db_parser.py, string_db_parser_single.py), over networkx Graph   *)
(* values.                                                                 *)
(***************************************************************************)
EXTENDS Integers, Sequences, FiniteSets, TLC

VARIABLES
    graph,                \* the nx.Graph handed to filter_by_distance / get_paths
    initial_proteins,     \* the seed list (List[str]) of filter_by_distance
    min_dist_treshold,    \* the threshold of filter_by_distance
    graph_list,           \* the list of graphs handed to combine_graphs
    source_node,          \* get_paths: source
    target_node,          \* get_paths: target
    node_dist_threshold,  \* get_paths: max_nodes
    df,                   \* the pd.DataFrame handed to a graph builder
    center,               \* get_inner_subgraph of string_db_parser_single: protein
    radius,               \* get_inner_subgraph of string_db_parser_single: radius
    protein_file,         \* the characters of the file read by read_proteins_file
    heap,                 \* the nx.Graph objects alive, by identity (position)
    files,                \* the artifact files a run of main has written
    pc,                   \* "ready" before the call, the called function's name after it
    outcome               \* [raised |-> exception name or "none", returned |-> <<>> or <<value>>]

\* the arguments of the calls, which no call assigns
arguments == <<graph, initial_proteins, min_dist_treshold, graph_list,
               source_node, target_node, node_dist_threshold,
               df, center, radius, protein_file>>

vars == <<arguments, heap, files, pc, outcome>>

----------------------------------------------------------------------------
(* Bounds of the model *)

\* longest seed list drawn
MaxSeeds == 2
\* largest distance threshold drawn (the smallest is -1)
MaxThreshold == 2
\* longest list of graphs handed to combine_graphs
MaxGraphs == 2
\* most edges of a graph handed to get_paths
MaxPathEdges == 6

\* protein identifiers of the graphs handed to filter_by_distance
FilterNodes == {"A", "B", "C", "D"}
\* protein identifiers of the graphs handed to combine_graphs
CombineNodes == {"A", "B", "C"}
\* protein identifiers of the graphs handed to get_paths
PathNodes == {"A", "B", "C", "D", "E"}

----------------------------------------------------------------------------
(* Graph values: nx.Graph, a node set and an attribute mapping per edge;   *)
(* an edge is the unordered pair of its endpoints.                         *)

\* an edge attribute mapping (dict) with no key
NoAttrs == [k \in {} |-> 0]

\* the attribute mappings drawn for combine_graphs: {score: 1} and
\* {score: 2, source: 1}, which differ in a value and in their keys
ScoreAttrs ==
    { [k \in {"score"} |-> 1],
      [k \in {"score", "source"} |-> IF k = "score" THEN 2 ELSE 1] }

\* a DataFrame with no column and no row
NoTable == [columns |-> {}, rows |-> <<>>]

\* nx.Graph()
EmptyGraph == [nodes |-> {}, edges |-> [e \in {} |-> NoAttrs]]

\* the unordered pairs of distinct nodes of V
Pairs(V) == {{u, v} : u, v \in V} \ {{u} : u \in V}

\* every graph with nodes from V, at most maxEdges edges, attributes from attrs
Graphs(V, maxEdges, attrs) ==
    UNION {
        UNION { {[nodes |-> N, edges |-> f] : f \in [E -> attrs]} :
                E \in {X \in SUBSET Pairs(N) : Cardinality(X) <= maxEdges} } :
        N \in SUBSET V }

\* every graph on exactly the nodes V with at most maxEdges edges
GraphsOn(V, maxEdges, attrs) ==
    UNION { {[nodes |-> V, edges |-> f] : f \in [E -> attrs]} :
            E \in {X \in SUBSET Pairs(V) : Cardinality(X) <= maxEdges} }

\* G.edges as a set of unordered pairs
EdgeSet(g) == DOMAIN g.edges

\* G[v]: the neighbours of v
Neighbors(g, v) == {w \in g.nodes : {v, w} \in EdgeSet(g)}

\* the elements of a list
Range(s) == {s[i] : i \in DOMAIN s}

\* the lists over S of length at most n
SeqsUpTo(S, n) == UNION {[1..k -> S] : k \in 0..n}

\* the outcome of a call that raised
Raised(exc) == [raised |-> exc, returned |-> <<>>]

\* the outcome of a call that returned value
Returned(value) == [raised |-> "none", returned |-> <<value>>]

----------------------------------------------------------------------------
(* networkx operations used by the source *)

\* the nodes reached from frontier, seen being those reached so far
RECURSIVE Reach(_, _, _)
Reach(g, frontier, seen) ==
    IF frontier = {} THEN seen
    ELSE LET next == (UNION {Neighbors(g, v) : v \in frontier}) \ seen
         IN  Reach(g, next, seen \cup next)

\* breadth-first search for target, level by level; -1 stands for NetworkXNoPath
RECURSIVE bfs_length(_, _, _, _, _)
bfs_length(g, frontier, seen, target, d) ==
    IF target \in frontier THEN d
    ELSE IF frontier = {} THEN -1
    ELSE LET next == (UNION {Neighbors(g, v) : v \in frontier}) \ seen
         IN  bfs_length(g, next, seen \cup next, target, d + 1)

\* nx.has_path(G, source, target): shortest_path raises NodeNotFound for a node
\* that is not in G; has_path catches NetworkXNoPath only
has_path(g, source, target) ==
    IF source \notin g.nodes \/ target \notin g.nodes
    THEN Raised("NodeNotFound")
    ELSE Returned(target \in Reach(g, {source}, {source}))

\* nx.shortest_path_length(G, source, target), called when has_path is True
shortest_path_length(g, source, target) ==
    bfs_length(g, {source}, {source}, target, 0)

\* nx.is_connected(G): undefined (an exception) for the null graph
is_connected(g) ==
    IF g.nodes = {}
    THEN Raised("NetworkXPointlessConcept")
    ELSE LET start == CHOOSE v \in g.nodes : TRUE
         IN  Returned(Reach(g, {start}, {start}) = g.nodes)

\* G.copy(): the same nodes, edges and attributes in a new graph
copy(g) == [nodes |-> g.nodes, edges |-> g.edges]

\* remove_nodes_from dropping an edge only when both its endpoints go
remove_nodes_keep_edges(g, removed) ==
    [nodes |-> g.nodes \ removed,
     edges |-> [e \in {x \in EdgeSet(g) : ~(x \subseteq removed)} |-> g.edges[e]]]

\* G.remove_nodes_from(nodes): the nodes go, and every edge at one of them
remove_nodes_from(g, removed) ==
    [nodes |-> g.nodes \ removed,
     edges |-> [e \in {x \in EdgeSet(g) : x \cap removed = {}} |-> g.edges[e]]]

----------------------------------------------------------------------------
(* filter_by_distance (string_db_combined_graph.py and add_paralogs.py hold *)
(* the same function body)                                                  *)

\* float('inf')
Inf == [finite |-> FALSE, value |-> 0]

\* a hop count as a value of min_distance
Fin(d) == [finite |-> TRUE, value |-> d]

\* min(min_distance, distance)
Min(a, b) ==
    IF ~a.finite THEN b
    ELSE IF ~b.finite THEN a
    ELSE IF a.value <= b.value THEN a ELSE b

\* Exceeds with the comparison off by one (>= for >)
ExceedsOrEquals(min_distance, treshold) ==
    ~min_distance.finite \/ min_distance.value >= treshold

\* Exceeds with the wrong comparison (!= for >)
DiffersFrom(min_distance, treshold) ==
    ~min_distance.finite \/ min_distance.value # treshold

\* min_distance > min_dist_treshold
Exceeds(min_distance, treshold) ==
    ~min_distance.finite \/ min_distance.value > treshold

\* the loop over initial_proteins from position i on, min_distance being acc:
\* the final min_distance, or the exception has_path raised
RECURSIVE min_distance_loop(_, _, _, _, _)
min_distance_loop(g, protein, proteins, i, acc) ==
    IF i > Len(proteins) THEN Returned(acc)
    ELSE LET hp == has_path(g, protein, proteins[i])
         IN  IF hp.raised # "none" THEN Raised(hp.raised)
             ELSE IF hp.returned[1]
             THEN min_distance_loop(g, protein, proteins, i + 1,
                      Min(acc, Fin(shortest_path_length(g, protein, proteins[i]))))
             ELSE min_distance_loop(g, protein, proteins, i + 1, acc)

\* scanned with the skip testing the first seed only
scannedButFirst(g, proteins) ==
    {protein \in g.nodes : Len(proteins) = 0 \/ protein # proteins[1]}

\* the nodes the outer loop visits without skipping them
scanned(g, proteins) == {protein \in g.nodes : protein \notin Range(proteins)}

\* vertices_to_remove after the outer loop, when no has_path call raised
vertices_to_remove(g, proteins, treshold) ==
    {protein \in scanned(g, proteins) :
        LET md == min_distance_loop(g, protein, proteins, 1, Inf)
        IN  md.raised = "none" /\ Exceeds(md.returned[1], treshold)}

\* filter_by_distance(graph, initial_proteins, min_dist_treshold)
filter_by_distance(g, proteins, treshold) ==
    IF \E protein \in scanned(g, proteins) :
           min_distance_loop(g, protein, proteins, 1, Inf).raised # "none"
    THEN Raised("NodeNotFound")
    ELSE LET filtered_graph ==
                 remove_nodes_from(copy(g), vertices_to_remove(g, proteins, treshold))
             connected == is_connected(filtered_graph)
         IN  IF connected.raised # "none" THEN Raised(connected.raised)
             ELSE Returned(filtered_graph)

\* the thresholds drawn
Thresholds == -1..MaxThreshold

InitFilter ==
    /\ graph \in Graphs(FilterNodes, Cardinality(Pairs(FilterNodes)), {NoAttrs})
    /\ initial_proteins \in SeqsUpTo(FilterNodes, MaxSeeds)
    /\ min_dist_treshold \in Thresholds
    /\ graph_list = <<>>
    /\ source_node = "A"
    /\ target_node = "A"
    /\ node_dist_threshold = 0
    /\ pc = "ready"
    /\ outcome = Raised("none")
    /\ df = NoTable
    /\ center = "A"
    /\ radius = 0
    /\ protein_file = <<>>
    /\ heap = <<>>
    /\ files = {}

\* a call of filter_by_distance on the drawn arguments
FilterByDistance ==
    /\ pc = "ready"
    /\ outcome' = filter_by_distance(graph, initial_proteins, min_dist_treshold)
    /\ pc' = "filter_by_distance"
    /\ UNCHANGED <<arguments, heap, files>>

NextFilter == FilterByDistance

SpecFilter == InitFilter /\ [][NextFilter]_vars

----------------------------------------------------------------------------
(* combine_graphs: string_db_combined_graph.py folds nx.compose over the   *)
(* list; add_paralogs.py adds nodes and edges graph by graph               *)

\* dict.update: the keys of both, other's value where both have the key
Update(attrs, other) ==
    [k \in DOMAIN attrs \cup DOMAIN other |->
        IF k \in DOMAIN other THEN other[k] ELSE attrs[k]]

\* nx.compose(G, H): R.add_edges_from(G.edges(data=True)), then H's edges, each
\* updating the attribute dict of an edge that is already there
compose(g, h) ==
    [nodes |-> g.nodes \cup h.nodes,
     edges |-> [e \in EdgeSet(g) \cup EdgeSet(h) |->
                   IF e \in EdgeSet(g) /\ e \in EdgeSet(h)
                   THEN Update(g.edges[e], h.edges[e])
                   ELSE IF e \in EdgeSet(g) THEN g.edges[e] ELSE h.edges[e]]]

\* functools.reduce(nx.compose, graphs) from position i on, acc accumulated
RECURSIVE reduce_compose(_, _, _)
reduce_compose(graphs, i, acc) ==
    IF i > Len(graphs) THEN acc
    ELSE reduce_compose(graphs, i + 1, compose(acc, graphs[i]))

\* string_db_combined_graph.combine_graphs(graphs_list): reduce without an
\* initial value raises TypeError on an empty list
string_db_combined_graph_combine_graphs(graphs) ==
    IF Len(graphs) = 0 THEN Raised("TypeError")
    ELSE Returned(reduce_compose(graphs, 2, graphs[1]))

\* add_graph with the node loop left out: nodes come with edges only
add_graph_edges_only(combined_graph, g) ==
    [nodes |-> combined_graph.nodes \cup UNION EdgeSet(g),
     edges |-> [e \in EdgeSet(combined_graph) \cup EdgeSet(g) |->
                   IF e \in EdgeSet(combined_graph)
                   THEN combined_graph.edges[e] ELSE g.edges[e]]]

\* add_paralogs.combine_graphs, the body of the loop over graph_list: add the
\* nodes that are missing, and each edge that is missing with its attributes
add_graph(combined_graph, g) ==
    [nodes |-> combined_graph.nodes \cup g.nodes,
     edges |-> [e \in EdgeSet(combined_graph) \cup EdgeSet(g) |->
                   IF e \in EdgeSet(combined_graph)
                   THEN combined_graph.edges[e] ELSE g.edges[e]]]

\* the loop over graph_list from position i on
RECURSIVE combine_loop(_, _, _)
combine_loop(graphs, i, combined_graph) ==
    IF i > Len(graphs) THEN combined_graph
    ELSE combine_loop(graphs, i + 1, add_graph(combined_graph, graphs[i]))

\* add_paralogs.combine_graphs(graph_list)
add_paralogs_combine_graphs(graphs) ==
    Returned(combine_loop(graphs, 1, EmptyGraph))

InitCombine ==
    /\ graph_list \in SeqsUpTo(Graphs(CombineNodes, Cardinality(Pairs(CombineNodes)),
                                      ScoreAttrs), MaxGraphs)
    /\ graph = EmptyGraph
    /\ initial_proteins = <<>>
    /\ min_dist_treshold = 0
    /\ source_node = "A"
    /\ target_node = "A"
    /\ node_dist_threshold = 0
    /\ pc = "ready"
    /\ outcome = Raised("none")
    /\ df = NoTable
    /\ center = "A"
    /\ radius = 0
    /\ protein_file = <<>>
    /\ heap = <<>>
    /\ files = {}

\* a call of string_db_combined_graph.combine_graphs on the drawn list
CombineGraphsReduce ==
    /\ pc = "ready"
    /\ outcome' = string_db_combined_graph_combine_graphs(graph_list)
    /\ pc' = "string_db_combined_graph.combine_graphs"
    /\ UNCHANGED <<arguments, heap, files>>

\* a call of add_paralogs.combine_graphs on the drawn list
CombineGraphsLoop ==
    /\ pc = "ready"
    /\ outcome' = add_paralogs_combine_graphs(graph_list)
    /\ pc' = "add_paralogs.combine_graphs"
    /\ UNCHANGED <<arguments, heap, files>>

NextCombine == CombineGraphsReduce \/ CombineGraphsLoop

SpecCombine == InitCombine /\ [][NextCombine]_vars

----------------------------------------------------------------------------
(* get_paths: string_db_parser.py enumerates all simple paths and keeps the *)
(* short ones; string_db_parser_single.py checks has_path and enumerates    *)
(* with a cutoff                                                            *)

\* the elements of S as a list, in a fixed order (the adjacency order)
RECURSIVE SetToSeq(_)
SetToSeq(S) ==
    IF S = {} THEN <<>>
    ELSE LET x == CHOOSE y \in S : TRUE
         IN  <<x>> \o SetToSeq(S \ {x})

\* depth-first search of nx.all_simple_paths: the simple paths to target that
\* extend path through the children from position i on, of at most cutoff edges
RECURSIVE simple_paths_from(_, _, _, _, _, _)
simple_paths_from(g, path, children, i, target, cutoff) ==
    IF i > Len(children) THEN <<>>
    ELSE LET child == children[i]
             here ==
                 IF child = target THEN <<Append(path, child)>>
                 ELSE IF Len(path) < cutoff
                 THEN LET longer == Append(path, child)
                      IN  simple_paths_from(g, longer,
                              SetToSeq(Neighbors(g, child) \ Range(longer)), 1,
                              target, cutoff)
                 ELSE <<>>
         IN  here \o simple_paths_from(g, path, children, i + 1, target, cutoff)

\* list(nx.all_simple_paths(G, source, target, cutoff)): NodeNotFound for a
\* source that is not in G; a target that is not in G is read as a set of
\* targets (the characters of the name), none of which is reached
all_simple_paths(g, source, target, cutoff) ==
    IF source \notin g.nodes THEN Raised("NodeNotFound")
    ELSE IF cutoff < 1 THEN Returned(<<>>)
    ELSE Returned(simple_paths_from(g, <<source>>,
                      SetToSeq(Neighbors(g, source) \ {source}), 1, target, cutoff))

\* the default cutoff one edge short (len(G) - 2)
no_cutoff_short(g) == Cardinality(g.nodes) - 2

\* cutoff=None: len(G) - 1
no_cutoff(g) == Cardinality(g.nodes) - 1

\* the range with its two ends let in
threshold_in_range_inclusive(threshold) == 2 <= threshold /\ threshold <= 10

\* 2 < node_dist_threshold < 10
threshold_in_range(threshold) == 2 < threshold /\ threshold < 10

\* path_list_len without the + 1
path_list_len_short(threshold) == threshold

\* path_list_len = node_dist_threshold + 1
path_list_len(threshold) == threshold + 1

\* string_db_parser.get_paths(graph, source_node, target_node, node_dist_threshold)
string_db_parser_get_paths(g, source, target, threshold) ==
    IF ~threshold_in_range(threshold) THEN Raised("ValueError")
    ELSE LET all_paths == all_simple_paths(g, source, target, no_cutoff(g))
         IN  IF all_paths.raised # "none" THEN Raised(all_paths.raised)
             ELSE Returned(SelectSeq(all_paths.returned[1],
                               LAMBDA path_list : Len(path_list) <= path_list_len(threshold)))

\* string_db_parser_single.get_paths(graph, source_node, target_node,
\* node_dist_threshold): sys.exit(1) when has_path is False
string_db_parser_single_get_paths(g, source, target, threshold) ==
    IF ~threshold_in_range(threshold) THEN Raised("ValueError")
    ELSE LET hp == has_path(g, source, target)
         IN  IF hp.raised # "none" THEN Raised(hp.raised)
             ELSE IF hp.returned[1]
             THEN all_simple_paths(g, source, target, threshold)
             ELSE Raised("SystemExit")

\* the values of node_dist_threshold drawn: both rejected neighbours of the
\* range, and accepted ones below and above the longest path of the graphs
NodeDistThresholds == {2, 3, 4, 9, 10}

\* source and target are drawn as two different nodes of the graph (what
\* all_simple_paths yields for source = target differs between networkx releases)
InitPaths ==
    /\ graph \in GraphsOn(PathNodes, MaxPathEdges, {NoAttrs})
    /\ source_node \in PathNodes
    /\ target_node \in PathNodes \ {source_node}
    /\ node_dist_threshold \in NodeDistThresholds
    /\ initial_proteins = <<>>
    /\ min_dist_treshold = 0
    /\ graph_list = <<>>
    /\ pc = "ready"
    /\ outcome = Raised("none")
    /\ df = NoTable
    /\ center = "A"
    /\ radius = 0
    /\ protein_file = <<>>
    /\ heap = <<>>
    /\ files = {}

\* a call of string_db_parser.get_paths on the drawn arguments
GetPathsFiltered ==
    /\ pc = "ready"
    /\ outcome' = string_db_parser_get_paths(graph, source_node, target_node,
                                             node_dist_threshold)
    /\ pc' = "string_db_parser.get_paths"
    /\ UNCHANGED <<arguments, heap, files>>

\* a call of string_db_parser_single.get_paths on the drawn arguments
GetPathsCutoff ==
    /\ pc = "ready"
    /\ outcome' = string_db_parser_single_get_paths(graph, source_node, target_node,
                                                    node_dist_threshold)
    /\ pc' = "string_db_parser_single.get_paths"
    /\ UNCHANGED <<arguments, heap, files>>

NextPaths == GetPathsFiltered \/ GetPathsCutoff

SpecPaths == InitPaths /\ [][NextPaths]_vars

----------------------------------------------------------------------------
(* Claims about filter_by_distance, checked under SpecFilter *)

\* the seeds as a set
SeedSet == Range(initial_proteins)

\* filter_by_distance was called and returned a graph
FilterReturned == pc = "filter_by_distance" /\ outcome.raised = "none"

\* the graph filter_by_distance returned
Filtered == outcome.returned[1]

\* the nodes within k edges of a node of S, by growing S one hop at a time
RECURSIVE Ball(_, _, _)
Ball(g, S, k) ==
    IF k <= 0 THEN S \cap g.nodes
    ELSE LET inner == Ball(g, S, k - 1)
         IN  inner \cup UNION {Neighbors(g, v) : v \in inner}

\* C1: for a threshold t >= 0, a returned filter_by_distance keeps a non-seed
\* node exactly when it lies within t hops of some seed (never when no seed is
\* reachable), and with t = 0 the retained nodes are exactly the seeds that are
\* nodes of the graph.
C1_KeepsExactlyWithinThreshold ==
    (FilterReturned /\ min_dist_treshold >= 0) =>
        /\ \A n \in graph.nodes \ SeedSet :
               (n \in Filtered.nodes) <=> (n \in Ball(graph, SeedSet, min_dist_treshold))
        /\ Filtered.nodes \subseteq graph.nodes
        /\ (min_dist_treshold = 0 => Filtered.nodes = SeedSet \cap graph.nodes)

\* a returned filtering with threshold 1 that keeps a non-seed node at distance
\* 1, removes one at distance 2 and removes one no seed reaches
C1_Witness ==
    /\ FilterReturned
    /\ min_dist_treshold = 1
    /\ \E n \in Filtered.nodes : n \notin SeedSet
    /\ \E n \in graph.nodes \ Filtered.nodes : n \in Ball(graph, SeedSet, 2)
    /\ \E n \in graph.nodes \ Filtered.nodes : n \notin Reach(graph, SeedSet, SeedSet)

\* C2: every seed that is a node of the input graph is a node of the graph
\* filter_by_distance returns, whatever the threshold and its distance to the
\* other seeds.
C2_SeedsRetained ==
    FilterReturned => (SeedSet \cap graph.nodes) \subseteq Filtered.nodes

\* a returned filtering with a negative threshold and two seeds in the graph,
\* one of them isolated, so in a component without another seed
C2_Witness ==
    /\ FilterReturned
    /\ min_dist_treshold < 0
    /\ Cardinality(SeedSet \cap graph.nodes) = 2
    /\ \E s \in SeedSet \cap graph.nodes : Neighbors(graph, s) = {}
    /\ graph.nodes # Filtered.nodes

\* the seed list without the identifiers that are no node of the graph
PresentSeeds == SelectSeq(initial_proteins, LAMBDA s : s \in graph.nodes)

\* C3: with a seed that is no node of the graph, filter_by_distance raises no
\* NodeNotFound and ends as it does with that seed left out of the list.
C3_AbsentSeedIgnored ==
    (pc = "filter_by_distance" /\ ~(SeedSet \subseteq graph.nodes)) =>
        /\ outcome.raised # "NodeNotFound"
        /\ outcome = filter_by_distance(graph, PresentSeeds, min_dist_treshold)

\* the nodes filter_by_distance keeps when no has_path call raises
KeptNodes == graph.nodes \ vertices_to_remove(graph, initial_proteins, min_dist_treshold)

\* C4: filter_by_distance returns a graph when the kept node set is empty or
\* induces a disconnected graph (all seeds being nodes of the graph).
C4_EmptyOrDisconnectedReturns ==
    (/\ pc = "filter_by_distance"
     /\ SeedSet \subseteq graph.nodes
     /\ \/ KeptNodes = {}
        \/ \E v \in KeptNodes :
               Reach(remove_nodes_from(graph, graph.nodes \ KeptNodes), {v}, {v}) # KeptNodes)
        => outcome.raised = "none"

\* C5: the returned graph is the induced subgraph on the kept nodes: an edge of
\* the input is an edge of the result exactly when both endpoints are kept, and
\* the result has no other edge.
C5_InducedSubgraph ==
    FilterReturned =>
        /\ \A e \in EdgeSet(graph) :
               (e \in EdgeSet(Filtered)) <=> (e \subseteq Filtered.nodes)
        /\ EdgeSet(Filtered) \subseteq EdgeSet(graph)

\* a returned filtering that keeps an edge between kept nodes and drops an edge
\* from a kept node to a removed one
C5_Witness ==
    /\ FilterReturned
    /\ EdgeSet(Filtered) # {}
    /\ \E e \in EdgeSet(graph) \ EdgeSet(Filtered) : e \cap Filtered.nodes # {}

----------------------------------------------------------------------------
(* Claims about combine_graphs, checked under SpecCombine *)

\* one of the two combine_graphs was called
Combined ==
    pc \in {"string_db_combined_graph.combine_graphs", "add_paralogs.combine_graphs"}

\* the combine_graphs that was called, applied to graphs
CalledCombine(graphs) ==
    IF pc = "string_db_combined_graph.combine_graphs"
    THEN string_db_combined_graph_combine_graphs(graphs)
    ELSE add_paralogs_combine_graphs(graphs)

\* the orderings of a list of n elements, for every length drawn
Orderings ==
    [n \in 0..MaxGraphs |->
        {f \in [1..n -> 1..n] : \A i, j \in 1..n : f[i] = f[j] => i = j}]

\* C6: for a non-empty list, combine_graphs returns a graph whose nodes are the
\* union of the inputs' nodes and whose edges (unordered pairs) are the union of
\* the inputs' edges, and every reordering of the list gives these same nodes
\* and edges.
C6_UnionOfNodesAndEdges ==
    (Combined /\ Len(graph_list) > 0) =>
        /\ outcome.raised = "none"
        /\ outcome.returned[1].nodes = UNION {graph_list[i].nodes : i \in DOMAIN graph_list}
        /\ EdgeSet(outcome.returned[1]) =
               UNION {EdgeSet(graph_list[i]) : i \in DOMAIN graph_list}
        /\ \A f \in Orderings[Len(graph_list)] :
               LET other == CalledCombine([i \in DOMAIN graph_list |-> graph_list[f[i]]])
               IN  /\ other.raised = "none"
                   /\ other.returned[1].nodes = outcome.returned[1].nodes
                   /\ EdgeSet(other.returned[1]) = EdgeSet(outcome.returned[1])

\* two graphs combined, the first with a node the second lacks, each with an
\* edge the other lacks, the first with a node on none of its edges
C6_Witness ==
    /\ Combined
    /\ Len(graph_list) = 2
    /\ graph_list[1].nodes \ graph_list[2].nodes # {}
    /\ EdgeSet(graph_list[1]) \ EdgeSet(graph_list[2]) # {}
    /\ EdgeSet(graph_list[2]) \ EdgeSet(graph_list[1]) # {}
    /\ graph_list[1].nodes \ UNION EdgeSet(graph_list[1]) # {}
    /\ outcome.raised = "none"

\* the attribute mapping of edge e in the first graph of the list that has e
FirstAttrs(e) ==
    LET first == CHOOSE i \in DOMAIN graph_list :
                     /\ e \in EdgeSet(graph_list[i])
                     /\ \A j \in 1..(i - 1) : e \notin EdgeSet(graph_list[j])
    IN  graph_list[first].edges[e]

\* C7: every edge of the combined graph carries exactly the attribute mapping
\* of the first graph in the list that has the edge.
C7_FirstGraphAttributes ==
    (Combined /\ outcome.raised = "none") =>
        \A e \in EdgeSet(outcome.returned[1]) : outcome.returned[1].edges[e] = FirstAttrs(e)

\* C8: combine_graphs of an empty list raises and returns no graph.
C8_EmptyListRaises ==
    (Combined /\ Len(graph_list) = 0) =>
        (outcome.raised # "none" /\ outcome.returned = <<>>)

----------------------------------------------------------------------------
(* Claims about get_paths, checked under SpecPaths *)

\* one of the two get_paths was called
PathsCalled ==
    pc \in {"string_db_parser.get_paths", "string_db_parser_single.get_paths"}

\* the lists without repetition over S
InjectiveSeqs(S) ==
    UNION { {q \in [1..k -> S] : \A i, j \in 1..k : q[i] = q[j] => i = j} :
            k \in 0..Cardinality(S) }

\* the simple paths of g from source to target with at most maxNodes nodes, as
\* the Path of the data model: pairwise distinct nodes, consecutive ones joined
\* by an edge
SimplePaths(g, source, target, maxNodes) ==
    {p \in {<<source>> \o mid \o <<target>> :
                mid \in InjectiveSeqs(g.nodes \ {source, target})} :
        /\ Len(p) <= maxNodes
        /\ \A i \in 1..(Len(p) - 1) : {p[i], p[i + 1]} \in EdgeSet(g)}

\* source and target are nodes of the same connected component
Connected(g, source, target) ==
    source \in g.nodes /\ target \in Reach(g, {source}, {source})

C10_DisconnectedFails ==
    (/\ PathsCalled
     /\ 2 < node_dist_threshold /\ node_dist_threshold < 10
     /\ source_node \in graph.nodes /\ target_node \in graph.nodes
     /\ ~Connected(graph, source_node, target_node)) =>
        (outcome.raised # "none" /\ outcome.returned = <<>>)

----------------------------------------------------------------------------
(* Path extraction of string_db_parser.py: get_paths, then                  *)
(* get_unique_internal_nodes and get_inner_subgraph on its result, for a    *)
(* source and a target that may be missing from the graph                   *)

\* an identifier that is a node of no drawn graph
AbsentNode == "Z"

\* get_unique_internal_nodes with the slice one place late (path[2:-1])
get_unique_internal_nodes_from_third(paths_list) ==
    SetToSeq(UNION {Range(SubSeq(paths_list[i], 3, Len(paths_list[i]) - 1)) :
                        i \in DOMAIN paths_list})

\* get_unique_internal_nodes(paths_list): list(set(...)) of path[1:-1] over
\* the paths
get_unique_internal_nodes(paths_list) ==
    SetToSeq(UNION {Range(SubSeq(paths_list[i], 2, Len(paths_list[i]) - 1)) :
                        i \in DOMAIN paths_list})

\* a subgraph that keeps the nodes and drops every edge
subgraph_nodes_only(g, nbunch) ==
    [nodes |-> Range(nbunch) \cap g.nodes, edges |-> [e \in {} |-> NoAttrs]]

\* G.subgraph(nbunch): the nodes of nbunch that G holds (the others are passed
\* over) and the edges of G between them, with their attributes
subgraph(g, nbunch) ==
    LET induced_nodes == Range(nbunch) \cap g.nodes
    IN  [nodes |-> induced_nodes,
         edges |-> [e \in {x \in EdgeSet(g) : x \subseteq induced_nodes} |-> g.edges[e]]]

\* string_db_parser.get_inner_subgraph(graph, unique_internal_nodes,
\* source_node, target_node)
string_db_parser_get_inner_subgraph(g, unique_internal_nodes, source, target) ==
    subgraph(g, unique_internal_nodes \o <<source, target>>)

InitExtract ==
    /\ graph \in GraphsOn(PathNodes, MaxPathEdges, {NoAttrs})
    /\ source_node \in PathNodes \cup {AbsentNode}
    /\ target_node \in (PathNodes \cup {AbsentNode}) \ {source_node}
    /\ node_dist_threshold \in NodeDistThresholds
    /\ initial_proteins = <<>>
    /\ min_dist_treshold = 0
    /\ graph_list = <<>>
    /\ pc = "ready"
    /\ outcome = Raised("none")
    /\ df = NoTable
    /\ center = "A"
    /\ radius = 0
    /\ protein_file = <<>>
    /\ heap = <<>>
    /\ files = {}

\* main of string_db_parser.py after get_paths has returned paths_list:
\* get_unique_internal_nodes, then get_inner_subgraph
GetInnerSubgraph ==
    /\ pc = "string_db_parser.get_paths"
    /\ outcome.raised = "none"
    /\ outcome' = Returned(string_db_parser_get_inner_subgraph(graph,
                       get_unique_internal_nodes(outcome.returned[1]),
                       source_node, target_node))
    /\ pc' = "string_db_parser.get_inner_subgraph"
    /\ UNCHANGED <<arguments, heap, files>>

NextExtract == GetPathsFiltered \/ GetPathsCutoff \/ GetInnerSubgraph

SpecExtract == InitExtract /\ [][NextExtract]_vars

----------------------------------------------------------------------------
(* Claims about path extraction, checked under SpecExtract *)

\* the paths string_db_parser.get_paths returns on the drawn arguments
ReturnedPaths ==
    string_db_parser_get_paths(graph, source_node, target_node,
                               node_dist_threshold).returned[1]

\* source, target and the nodes strictly between the ends of a returned path
PathNodeSet ==
    {source_node, target_node} \cup
    UNION { {ReturnedPaths[i][j] : j \in 2..(Len(ReturnedPaths[i]) - 1)} :
            i \in DOMAIN ReturnedPaths }

\* C11: the subgraph of path extraction has as nodes exactly source, target
\* and the nodes strictly inside some returned path, and as edges exactly the
\* edges of the input graph with both ends among these nodes.
C11_InducedOnPathNodes ==
    pc = "string_db_parser.get_inner_subgraph" =>
        /\ outcome.returned[1].nodes = PathNodeSet
        /\ EdgeSet(outcome.returned[1]) =
               {e \in EdgeSet(graph) : e \subseteq PathNodeSet}

\* C12: get_paths raises ValueError exactly for max_nodes outside
\* 2 < max_nodes < 10 (2 and 10 rejected, 3 and 9 accepted), whatever the
\* graph, source and target: the range is checked before has_path or the
\* enumeration can raise or exit.
C12_RangeCheckedFirst ==
    PathsCalled =>
        (outcome.raised = "ValueError" <=>
             ~(2 < node_dist_threshold /\ node_dist_threshold < 10))

\* max_nodes = 10 is rejected with ValueError for a source that is not a node,
\* on which the path-existence check or the enumeration raises NodeNotFound
C12_Witness ==
    /\ PathsCalled
    /\ node_dist_threshold = 10
    /\ source_node \notin graph.nodes
    /\ outcome = Raised("ValueError")

\* C15 (path extraction): get_paths on a source or a target that is not a
\* node of the graph raises and returns no path list, and no subgraph is cut.
C15_AbsentNodeFails ==
    (/\ pc # "ready"
     /\ (source_node \notin graph.nodes \/ target_node \notin graph.nodes)) =>
        (PathsCalled /\ outcome.raised # "none" /\ outcome.returned = <<>>)

----------------------------------------------------------------------------
(* Graph builders: make_graph (string_db_parser.py and                      *)
(* string_db_parser_single.py hold the same body), make_paralog_graph       *)
(* (add_paralogs.py) and create_orthologs_graph (add_orthologs.py), over a  *)
(* pd.DataFrame: the set of its column names and the list of its rows       *)

\* longest DataFrame drawn, in rows
MaxRows == 3

\* the identifiers found in the endpoint columns
BuildNodes == {"A", "B", "C"}

\* the values found in the attribute column
Scores == {1, 2}

\* the endpoint columns a builder is called with (its left_node_colname /
\* source_colname and right_node_colname / target_colname)
LeftColumn == "left"
RightColumn == "right"

\* the columns a drawn DataFrame may hold: the two endpoint columns and one
\* attribute column
ColumnNames == {LeftColumn, RightColumn, "score"}

\* the rows over the columns cols
Rows(cols) ==
    { [c \in cols |-> IF c = LeftColumn THEN a ELSE IF c = RightColumn THEN b ELSE sc] :
          a \in BuildNodes, b \in BuildNodes, sc \in Scores }

\* the DataFrames with the columns cols and k rows
Tables(cols, k) == {[columns |-> cols, rows |-> r] : r \in [1..k -> Rows(cols)]}

\* df.empty: an axis of length 0
empty(table) == table.columns = {} \/ table.rows = <<>>

\* an add_edge that passes over an edge between two nodes it already holds
add_edge_unless_known(g, u, v) ==
    IF u \in g.nodes /\ v \in g.nodes THEN g
    ELSE [nodes |-> g.nodes \cup {u, v},
          edges |-> [e \in EdgeSet(g) \cup {{u, v}} |->
                        IF e \in EdgeSet(g) THEN g.edges[e] ELSE NoAttrs]]

\* G.add_edges_from on one pair (u, v) without attributes: both nodes are
\* added, and the edge with an empty attribute dict unless it is there already
add_edge(g, u, v) ==
    [nodes |-> g.nodes \cup {u, v},
     edges |-> [e \in EdgeSet(g) \cup {{u, v}} |->
                   IF e \in EdgeSet(g) THEN g.edges[e] ELSE NoAttrs]]

\* G.add_edges_from(zip(df[source], df[target])) from row i on
RECURSIVE add_edges_from(_, _, _, _, _)
add_edges_from(g, rows, i, source, target) ==
    IF i > Len(rows) THEN g
    ELSE add_edges_from(add_edge(g, rows[i][source], rows[i][target]),
                        rows, i + 1, source, target)

\* nx.from_pandas_edgelist(df, source, target) with edge_attr=None: KeyError
\* for a missing column, otherwise the graph of the pairs, no attribute read
from_pandas_edgelist(table, source, target) ==
    IF source \notin table.columns \/ target \notin table.columns
    THEN Raised("KeyError")
    ELSE Returned(add_edges_from(EmptyGraph, table.rows, 1, source, target))

\* make_graph(df, left_node_colname, right_node_colname)
make_graph(table, left_node_colname, right_node_colname) ==
    IF empty(table) THEN Raised("ValueError")
    ELSE IF left_node_colname \notin table.columns THEN Raised("ValueError")
    ELSE IF right_node_colname \notin table.columns THEN Raised("ValueError")
    ELSE from_pandas_edgelist(table, left_node_colname, right_node_colname)

\* make_paralog_graph(edges, source_colname, target_colname)
make_paralog_graph(edges, source_colname, target_colname) ==
    from_pandas_edgelist(edges, source_colname, target_colname)

\* create_orthologs_graph(orthologs_edges, source_colname, target_colname)
create_orthologs_graph(orthologs_edges, source_colname, target_colname) ==
    from_pandas_edgelist(orthologs_edges, source_colname, target_colname)

InitBuild ==
    /\ \E cols \in SUBSET ColumnNames, k \in 0..MaxRows : df \in Tables(cols, k)
    /\ graph = EmptyGraph
    /\ initial_proteins = <<>>
    /\ min_dist_treshold = 0
    /\ graph_list = <<>>
    /\ source_node = "A"
    /\ target_node = "A"
    /\ node_dist_threshold = 0
    /\ center = "A"
    /\ radius = 0
    /\ protein_file = <<>>
    /\ heap = <<>>
    /\ files = {}
    /\ pc = "ready"
    /\ outcome = Raised("none")

\* a call of make_graph (either file) on the drawn DataFrame
MakeGraph ==
    /\ pc = "ready"
    /\ outcome' = make_graph(df, LeftColumn, RightColumn)
    /\ pc' = "make_graph"
    /\ UNCHANGED <<arguments, heap, files>>

\* a call of make_paralog_graph on the drawn DataFrame
MakeParalogGraph ==
    /\ pc = "ready"
    /\ outcome' = make_paralog_graph(df, LeftColumn, RightColumn)
    /\ pc' = "make_paralog_graph"
    /\ UNCHANGED <<arguments, heap, files>>

\* a call of create_orthologs_graph on the drawn DataFrame
CreateOrthologsGraph ==
    /\ pc = "ready"
    /\ outcome' = create_orthologs_graph(df, LeftColumn, RightColumn)
    /\ pc' = "create_orthologs_graph"
    /\ UNCHANGED <<arguments, heap, files>>

NextBuild == MakeGraph \/ MakeParalogGraph \/ CreateOrthologsGraph

SpecBuild == InitBuild /\ [][NextBuild]_vars

----------------------------------------------------------------------------
(* Claims about the graph builders, checked under SpecBuild *)

\* one of the builders was called
BuilderCalled ==
    pc \in {"make_graph", "make_paralog_graph", "create_orthologs_graph"}

\* a valid record sequence: at least one record, both endpoint columns
ValidRecords ==
    df.rows # <<>> /\ LeftColumn \in df.columns /\ RightColumn \in df.columns

\* the unordered pair of endpoints of a record
Ends(r) == {r[LeftColumn], r[RightColumn]}

\* the attributes of a record: its columns other than the endpoint columns
RecordAttrs(r) == [c \in df.columns \ {LeftColumn, RightColumn} |-> r[c]]

\* the first record of the DataFrame with the endpoints e
FirstRecord(e) ==
    df.rows[CHOOSE i \in DOMAIN df.rows :
                /\ Ends(df.rows[i]) = e
                /\ \A j \in 1..(i - 1) : Ends(df.rows[j]) # e]

\* the built graph has an edge {u, v} exactly for the pairs of the records,
\* and as nodes exactly the endpoint values
BuiltTopology ==
    /\ outcome.raised = "none"
    /\ EdgeSet(outcome.returned[1]) = {Ends(df.rows[i]) : i \in DOMAIN df.rows}
    /\ outcome.returned[1].nodes = UNION {Ends(df.rows[i]) : i \in DOMAIN df.rows}

\* C16: every builder raises and returns no graph when the record set is
\* empty or an endpoint column is missing; no builder returns a graph (empty
\* or not) for an empty record set.
C16_EmptyOrSchemaFails ==
    (BuilderCalled /\ ~ValidRecords) =>
        (outcome.raised # "none" /\ outcome.returned = <<>>)

\* C17 as stated: for a valid record sequence the built graph has the edges
\* and nodes of the records, and every edge carries the attributes of the
\* first record with its endpoints.
C17_FirstRecordAttributes ==
    (BuilderCalled /\ ValidRecords) =>
        /\ BuiltTopology
        /\ \A e \in EdgeSet(outcome.returned[1]) :
               outcome.returned[1].edges[e] = RecordAttrs(FirstRecord(e))

\* C17 amended: for a valid record sequence the built graph has the edges and
\* nodes of the records, records with the same unordered pair give one edge,
\* and every edge carries no attribute: the attribute columns are not read.
C17_TopologyWithoutAttributes ==
    (BuilderCalled /\ ValidRecords) =>
        /\ BuiltTopology
        /\ \A e \in EdgeSet(outcome.returned[1]) :
               outcome.returned[1].edges[e] = NoAttrs

\* two records name the same pair in opposite orders with different scores,
\* and the built graph has the one edge, without attributes
C17_Witness ==
    /\ BuilderCalled
    /\ Len(df.rows) = 2
    /\ df.columns = ColumnNames
    /\ df.rows[1][LeftColumn] = df.rows[2][RightColumn]
    /\ df.rows[1][RightColumn] = df.rows[2][LeftColumn]
    /\ df.rows[1][LeftColumn] # df.rows[1][RightColumn]
    /\ df.rows[1]["score"] # df.rows[2]["score"]
    /\ outcome.raised = "none"
    /\ Cardinality(EdgeSet(outcome.returned[1])) = 1
    /\ outcome.returned[1].edges[Ends(df.rows[1])] = NoAttrs

----------------------------------------------------------------------------
(* Neighbourhood extraction of string_db_parser_single.py:                  *)
(* get_inner_subgraph, which is nx.ego_graph, on a graph built by make_graph *)

\* largest radius drawn
MaxRadius == 2

\* the graphs make_graph returns on the DataFrames of 1 to MaxRows rows that
\* hold the two endpoint columns
BuiltGraphs ==
    UNION { { make_graph(table, LeftColumn, RightColumn).returned[1] :
                  table \in Tables({LeftColumn, RightColumn}, k) } :
            k \in 1..MaxRows }

\* a breadth-first search that does not stop at the cutoff
RECURSIVE shortest_path_length_unbounded(_, _, _, _)
shortest_path_length_unbounded(g, nextlevel, seen, cutoff) ==
    IF nextlevel = {} THEN seen
    ELSE LET found == (UNION {Neighbors(g, v) : v \in nextlevel}) \ seen
         IN  shortest_path_length_unbounded(g, found, seen \cup found, cutoff - 1)

\* the keys of nx.single_source_shortest_path_length(G, n, cutoff): level by
\* level while the level is not empty and cutoff > level
RECURSIVE single_source_shortest_path_length(_, _, _, _)
single_source_shortest_path_length(g, nextlevel, seen, cutoff) ==
    IF nextlevel = {} \/ cutoff <= 0 THEN seen
    ELSE LET found == (UNION {Neighbors(g, v) : v \in nextlevel}) \ seen
         IN  single_source_shortest_path_length(g, found, seen \cup found, cutoff - 1)

\* nx.ego_graph(G, n, radius, undirected=True): NodeNotFound for n not in G,
\* otherwise G.subgraph(sp).copy() with sp the nodes within radius of n
ego_graph(g, n, r) ==
    IF n \notin g.nodes THEN Raised("NodeNotFound")
    ELSE Returned(copy(subgraph(g,
             SetToSeq(single_source_shortest_path_length(g, {n}, {n}, r)))))

\* string_db_parser_single.get_inner_subgraph(graph, protein, radius)
string_db_parser_single_get_inner_subgraph(g, n, r) == ego_graph(g, n, r)

InitEgo ==
    /\ graph \in BuiltGraphs
    /\ center \in BuildNodes \cup {AbsentNode}
    /\ radius \in 0..MaxRadius
    /\ df = NoTable
    /\ initial_proteins = <<>>
    /\ min_dist_treshold = 0
    /\ graph_list = <<>>
    /\ source_node = "A"
    /\ target_node = "A"
    /\ node_dist_threshold = 0
    /\ protein_file = <<>>
    /\ heap = <<>>
    /\ files = {}
    /\ pc = "ready"
    /\ outcome = Raised("none")

\* a call of string_db_parser_single.get_inner_subgraph on the drawn arguments
GetInnerSubgraphOfProtein ==
    /\ pc = "ready"
    /\ outcome' = string_db_parser_single_get_inner_subgraph(graph, center, radius)
    /\ pc' = "string_db_parser_single.get_inner_subgraph"
    /\ UNCHANGED <<arguments, heap, files>>

NextEgo == GetInnerSubgraphOfProtein

SpecEgo == InitEgo /\ [][NextEgo]_vars

----------------------------------------------------------------------------
(* Claims about neighbourhood extraction, checked under SpecEgo *)

\* the neighbourhood of a center that is a node of the graph was extracted
EgoReturned ==
    /\ pc = "string_db_parser_single.get_inner_subgraph"
    /\ center \in graph.nodes

\* the nodes of g at hop distance exactly k from c: an edge path of k edges
\* leads there and none of fewer edges
RECURSIVE WalkEnds(_, _, _)
WalkEnds(g, c, k) ==
    IF k = 0 THEN {c}
    ELSE {w \in g.nodes : \E v \in WalkEnds(g, c, k - 1) : {v, w} \in EdgeSet(g)}

\* the nodes of g at hop distance at most r from c
WithinHops(g, c, r) == UNION {WalkEnds(g, c, k) : k \in 0..r}

\* C13: for a center c of g and a radius r >= 0, neighbourhood extraction
\* returns the graph whose nodes are exactly the nodes of g at hop distance at
\* most r from c and whose edges are exactly the edges of g with both ends
\* among them.
C13_NodesWithinRadius ==
    EgoReturned =>
        /\ outcome.raised = "none"
        /\ outcome.returned[1].nodes = WithinHops(graph, center, radius)
        /\ EdgeSet(outcome.returned[1]) =
               {e \in EdgeSet(graph) : e \subseteq WithinHops(graph, center, radius)}

\* radius 1 on a graph with a node two hops from the center: the neighbour is
\* kept with its edge, the farther node is left out
C13_Witness ==
    /\ EgoReturned
    /\ radius = 1
    /\ outcome.raised = "none"
    /\ \E v \in graph.nodes \ outcome.returned[1].nodes :
           v \in WithinHops(graph, center, 2)
    /\ \E w \in outcome.returned[1].nodes :
           w # center /\ {center, w} \in EdgeSet(outcome.returned[1])

----------------------------------------------------------------------------
(* Graph objects: what each combining, filtering and extraction operation   *)
(* returns, by identity. heap holds the nx.Graph objects, graph_list[i]     *)
(* being object i; an operation returns a reference to an object (a new one *)
(* or one of its inputs) or the read-only view of G.subgraph on an object.  *)
(* After the call the caller changes an input or the returned graph.        *)

\* node_dist_threshold=5 in main of string_db_parser.py
MainNodeDistThreshold == 5

\* a reference to the object id of the heap
GraphRef(id) == [kind |-> "graph", id |-> id, nbunch |-> <<>>]

\* the view G.subgraph(nbunch) returns on the object id
ViewRef(id, nbunch) == [kind |-> "view", id |-> id, nbunch |-> nbunch]

\* the graph a reference shows on the heap h: the object itself, or for a
\* view the nodes of nbunch the object holds now and its edges between them
Deref(h, ref) ==
    IF ref.kind = "view" THEN subgraph(h[ref.id], ref.nbunch) ELSE h[ref.id]

\* G.add_node(n)
add_node(g, n) == [nodes |-> g.nodes \cup {n}, edges |-> g.edges]

\* the graphs one in-place change of g leads to, by the methods the source
\* calls on a graph: add_node, remove_nodes_from (which takes the edges of the
\* node with it) and add_edge
Changes(g) ==
    {add_node(g, n) : n \in CombineNodes \ g.nodes}
    \cup {remove_nodes_from(g, {n}) : n \in g.nodes}
    \cup {add_edge(g, e[1], e[2]) : e \in {x \in g.nodes \X g.nodes : x[1] # x[2]}}

InitObjects ==
    /\ graph_list \in SeqsUpTo(Graphs(CombineNodes, Cardinality(Pairs(CombineNodes)),
                                      {NoAttrs}), MaxGraphs) \ {<<>>}
    /\ heap = graph_list
    /\ graph = EmptyGraph
    /\ initial_proteins = <<>>
    /\ min_dist_treshold = 0
    /\ source_node = "A"
    /\ target_node = "A"
    /\ node_dist_threshold = 0
    /\ df = NoTable
    /\ center = "A"
    /\ radius = 0
    /\ protein_file = <<>>
    /\ files = {}
    /\ pc = "ready"
    /\ outcome = Raised("none")

\* the outcome of a call that returns a new object holding value, or raises
Allocate(result) ==
    IF result.raised # "none"
    THEN outcome' = Raised(result.raised) /\ heap' = heap
    ELSE /\ heap' = Append(heap, result.returned[1])
         /\ outcome' = Returned(GraphRef(Len(heap) + 1))

\* string_db_combined_graph.combine_graphs: reduce(nx.compose, graphs_list)
\* returns the one element itself for a list of one graph, and otherwise the
\* new graph of the last nx.compose
ReduceObjects ==
    /\ pc = "ready"
    /\ IF Len(graph_list) = 1
       THEN outcome' = Returned(GraphRef(1)) /\ heap' = heap
       ELSE Allocate(string_db_combined_graph_combine_graphs(graph_list))
    /\ pc' = "string_db_combined_graph.combine_graphs"
    /\ UNCHANGED <<arguments, files>>

\* add_paralogs.combine_graphs: combined_graph = nx.Graph() is a new object
LoopObjects ==
    /\ pc = "ready"
    /\ Allocate(add_paralogs_combine_graphs(graph_list))
    /\ pc' = "add_paralogs.combine_graphs"
    /\ UNCHANGED <<arguments, files>>

\* filter_by_distance on object 1: filtered_graph = graph.copy() is a new object
FilterObject ==
    /\ pc = "ready"
    /\ Len(graph_list) = 1
    /\ \E proteins \in SeqsUpTo(CombineNodes, MaxSeeds), treshold \in Thresholds :
           Allocate(filter_by_distance(heap[1], proteins, treshold))
    /\ pc' = "filter_by_distance"
    /\ UNCHANGED <<arguments, files>>

\* string_db_parser.get_inner_subgraph on object 1, with the inner nodes of
\* the paths get_paths returns: graph.subgraph(...) is a view on object 1
SubgraphView ==
    /\ pc = "ready"
    /\ Len(graph_list) = 1
    /\ \E source \in heap[1].nodes : \E target \in heap[1].nodes \ {source} :
           LET paths_list == string_db_parser_get_paths(heap[1], source, target,
                                 MainNodeDistThreshold).returned[1]
           IN  outcome' = Returned(ViewRef(1,
                   get_unique_internal_nodes(paths_list) \o <<source, target>>))
    /\ heap' = heap
    /\ pc' = "string_db_parser.get_inner_subgraph"
    /\ UNCHANGED <<arguments, files>>

\* string_db_parser_single.get_inner_subgraph on object 1: nx.ego_graph
\* returns G.subgraph(sp).copy(), a new object
EgoObject ==
    /\ pc = "ready"
    /\ Len(graph_list) = 1
    /\ \E n \in CombineNodes, r \in 0..MaxRadius :
           Allocate(string_db_parser_single_get_inner_subgraph(heap[1], n, r))
    /\ pc' = "string_db_parser_single.get_inner_subgraph"
    /\ UNCHANGED <<arguments, files>>

\* an operation has returned a graph
Handed ==
    /\ pc \in {"string_db_combined_graph.combine_graphs", "add_paralogs.combine_graphs",
               "filter_by_distance", "string_db_parser.get_inner_subgraph",
               "string_db_parser_single.get_inner_subgraph"}
    /\ outcome.raised = "none"

\* after the call: a node or an edge is added to or removed from an input graph
ChangeInput ==
    /\ Handed
    /\ \E i \in DOMAIN graph_list :
           \E changed \in Changes(heap[i]) : heap' = [heap EXCEPT ![i] = changed]
    /\ pc' = "input changed"
    /\ UNCHANGED <<arguments, files, outcome>>

\* after the call: a node or an edge is added to or removed from the returned
\* graph, when it is a graph object
ChangeReturned ==
    /\ Handed
    /\ outcome.returned[1].kind = "graph"
    /\ \E changed \in Changes(heap[outcome.returned[1].id]) :
           heap' = [heap EXCEPT ![outcome.returned[1].id] = changed]
    /\ pc' = "returned graph changed"
    /\ UNCHANGED <<arguments, files, outcome>>

\* after the call: a change of the returned graph when it is a view, which is
\* frozen and raises NetworkXError
ChangeReturnedView ==
    /\ Handed
    /\ outcome.returned[1].kind = "view"
    /\ pc' = "returned graph frozen"
    /\ UNCHANGED <<arguments, files, outcome, heap>>

NextObjects ==
    \/ ReduceObjects
    \/ LoopObjects
    \/ FilterObject
    \/ SubgraphView
    \/ EgoObject
    \/ ChangeInput
    \/ ChangeReturned
    \/ ChangeReturnedView

SpecObjects == InitObjects /\ [][NextObjects]_vars

----------------------------------------------------------------------------
(* Claims about graph objects, checked under SpecObjects *)

\* C18: each combining, filtering and extraction call leaves every input
\* graph as it was, and returns a graph independent of the inputs: a later
\* change of an input does not change the returned graph, and a later change
\* of the returned graph changes no input.
C18_ReturnedGraphIndependent ==
    [][/\ (pc = "ready" /\ pc' # "ready") =>
              \A i \in DOMAIN graph_list : heap'[i] = heap[i]
       /\ pc' = "input changed" =>
              Deref(heap', outcome.returned[1]) = Deref(heap, outcome.returned[1])
       /\ pc' = "returned graph changed" =>
              \A i \in DOMAIN graph_list : heap'[i] = heap[i]]_vars

----------------------------------------------------------------------------
(* Runs of main: string_db_combined_graph.py (combine_graphs,               *)
(* filter_by_distance, store_filtered_graph) and add_paralogs.py            *)
(* (make_paralog_graph, combine_graphs, filter_by_distance,                 *)
(* store_filtered_graph), step by step. pc is the position in main, outcome *)
(* the result of the last step, files the artifacts written so far. A step   *)
(* that raises ends the run.                                                *)

\* longest edges DataFrame drawn for a run of add_paralogs.py, in rows
MaxEdgeRows == 1

\* min_dist_treshold: int = 2, the default of filter_by_distance
DefaultMinDistTreshold == 2

\* filter_by_distance(graph_with_paralogs, initial_proteins, 1)
ParalogsMinDistTreshold == 1

\* the graphs loaded by a run
RunGraphs == Graphs(CombineNodes, Cardinality(Pairs(CombineNodes)), {NoAttrs})

\* the edges DataFrames loaded by a run of add_paralogs.py
RunTables ==
    UNION { Tables(cols, k) : cols \in SUBSET {LeftColumn, RightColumn},
                             k \in 0..MaxEdgeRows }

\* what can happen to the two writes of store_filtered_graph: open(..., 'wb')
\* raises (the directory of string_db_combined_graph.py is not created, the
\* file cannot be opened) and nothing is written; or the pickle is written and
\* drawing or plt.savefig raises; or both files are written
StoreOutcomes == {"open raises", "savefig raises", "written"}

\* store_filtered_graph writing the pickle named pickle_name and then the
\* figure named figure_name
store_filtered_graph(pickle_name, figure_name) ==
    \E io \in StoreOutcomes :
        /\ files' = CASE io = "open raises" -> files
                      [] io = "savefig raises" -> files \cup {pickle_name}
                      [] OTHER -> files \cup {pickle_name, figure_name}
        /\ outcome' = IF io = "written" THEN Returned("None") ELSE Raised("OSError")

InitRun ==
    /\ pc \in {"string_db_combined_graph.main", "add_paralogs.main"}
    /\ initial_proteins \in SeqsUpTo(CombineNodes, MaxSeeds)
    /\ IF pc = "add_paralogs.main"
       THEN graph \in RunGraphs /\ df \in RunTables /\ graph_list = <<>>
       ELSE graph_list \in SeqsUpTo(RunGraphs, MaxGraphs) /\ graph = EmptyGraph
                /\ df = NoTable
    /\ min_dist_treshold = 0
    /\ source_node = "A"
    /\ target_node = "A"
    /\ node_dist_threshold = 0
    /\ center = "A"
    /\ radius = 0
    /\ protein_file = <<>>
    /\ heap = <<>>
    /\ files = {}
    /\ outcome = Raised("none")

\* string_db_combined_graph.main: combined_graph = combine_graphs(graphs_list)
RunCombine ==
    /\ pc = "string_db_combined_graph.main"
    /\ outcome' = string_db_combined_graph_combine_graphs(graph_list)
    /\ pc' = "string_db_combined_graph.main: combine_graphs"
    /\ UNCHANGED <<arguments, heap, files>>

\* string_db_combined_graph.main: filtered_graph =
\* filter_by_distance(combined_graph, initial_proteins_list)
RunFilter ==
    /\ pc = "string_db_combined_graph.main: combine_graphs"
    /\ outcome.raised = "none"
    /\ outcome' = filter_by_distance(outcome.returned[1], initial_proteins,
                                     DefaultMinDistTreshold)
    /\ pc' = "string_db_combined_graph.main: filter_by_distance"
    /\ UNCHANGED <<arguments, heap, files>>

\* string_db_combined_graph.main: store_filtered_graph(filtered_graph)
RunStore ==
    /\ pc = "string_db_combined_graph.main: filter_by_distance"
    /\ outcome.raised = "none"
    /\ store_filtered_graph("filtered_graph.pickle", "filtered_graph.svg")
    /\ pc' = "string_db_combined_graph.main: store_filtered_graph"
    /\ UNCHANGED <<arguments, heap>>

\* add_paralogs.main: paralog_graph = make_paralog_graph(edges)
ParalogsBuild ==
    /\ pc = "add_paralogs.main"
    /\ outcome' = make_paralog_graph(df, LeftColumn, RightColumn)
    /\ pc' = "add_paralogs.main: make_paralog_graph"
    /\ UNCHANGED <<arguments, heap, files>>

\* add_paralogs.main: graph_with_paralogs =
\* combine_graphs([combined_graph, paralog_graph])
ParalogsCombine ==
    /\ pc = "add_paralogs.main: make_paralog_graph"
    /\ outcome.raised = "none"
    /\ outcome' = add_paralogs_combine_graphs(<<graph, outcome.returned[1]>>)
    /\ pc' = "add_paralogs.main: combine_graphs"
    /\ UNCHANGED <<arguments, heap, files>>

\* add_paralogs.main: graph_with_paralogs_filtred =
\* filter_by_distance(graph_with_paralogs, initial_proteins, 1)
ParalogsFilter ==
    /\ pc = "add_paralogs.main: combine_graphs"
    /\ outcome.raised = "none"
    /\ outcome' = filter_by_distance(outcome.returned[1], initial_proteins,
                                     ParalogsMinDistTreshold)
    /\ pc' = "add_paralogs.main: filter_by_distance"
    /\ UNCHANGED <<arguments, heap, files>>

\* add_paralogs.main: store_filtered_graph(graph_with_paralogs_filtred,
\* initial_proteins)
ParalogsStore ==
    /\ pc = "add_paralogs.main: filter_by_distance"
    /\ outcome.raised = "none"
    /\ store_filtered_graph("paralogs_graph.pickle", "paralogs_graph.svg")
    /\ pc' = "add_paralogs.main: store_filtered_graph"
    /\ UNCHANGED <<arguments, heap>>

NextRun ==
    \/ RunCombine
    \/ RunFilter
    \/ RunStore
    \/ ParalogsBuild
    \/ ParalogsCombine
    \/ ParalogsFilter
    \/ ParalogsStore

SpecRun == InitRun /\ [][NextRun]_vars

----------------------------------------------------------------------------
(* Claims about the runs of main, checked under SpecRun *)

\* the run is at store_filtered_graph or past it
AtStore ==
    pc \in {"string_db_combined_graph.main: store_filtered_graph",
            "add_paralogs.main: store_filtered_graph"}

\* the complete results a run can leave: nothing, or the pickle with its figure
CompleteResults ==
    { {}, {"filtered_graph.pickle", "filtered_graph.svg"},
      {"paralogs_graph.pickle", "paralogs_graph.svg"} }

\* C19: in every run an artifact is written only once building, combination
\* and filtering have completed without error; a run in which one of these
\* steps raised has written nothing; and no run leaves one file of the
\* pickle/figure pair without the other.
C19_ArtifactsAllOrNothing ==
    /\ files # {} => AtStore
    /\ (~AtStore /\ outcome.raised # "none") => files = {}
    /\ files \in CompleteResults

----------------------------------------------------------------------------
(* read_proteins_file (string_db_combined_graph.py, add_paralogs.py and     *)
(* add_orthologs.py hold the same body), over the characters of the file    *)

\* longest file drawn, in characters
MaxFileLen == 4

\* the line terminator
Newline == "\n"

\* the characters str.strip() removes from the ends of a line
Whitespace == {" ", Newline}

\* the characters of a drawn file: two letters of an identifier, the blank
\* and the line terminator
FileChars == {"A", "B"} \cup Whitespace

\* protein_file.readlines() from character i on, line being the characters of
\* the current line read so far: every line keeps its terminator, and the last
\* line has none when the file does not end with one
RECURSIVE readlines(_, _, _)
readlines(chars, i, line) ==
    IF i > Len(chars) THEN (IF line = <<>> THEN <<>> ELSE <<line>>)
    ELSE IF chars[i] = Newline
    THEN <<Append(line, Newline)>> \o readlines(chars, i + 1, <<>>)
    ELSE readlines(chars, i + 1, Append(line, chars[i]))

\* str.lstrip()
RECURSIVE lstrip(_)
lstrip(line) ==
    IF line # <<>> /\ Head(line) \in Whitespace THEN lstrip(Tail(line)) ELSE line

\* str.rstrip()
RECURSIVE rstrip(_)
rstrip(line) ==
    IF line # <<>> /\ line[Len(line)] \in Whitespace
    THEN rstrip(SubSeq(line, 1, Len(line) - 1))
    ELSE line

\* str.strip()
strip(line) == rstrip(lstrip(line))

\* read_proteins_file(protein_filepath): [line.strip() for line in lines]
read_proteins_file(chars) ==
    LET lines == readlines(chars, 1, <<>>)
    IN  Returned([i \in 1..Len(lines) |-> strip(lines[i])])

InitRead ==
    /\ protein_file \in SeqsUpTo(FileChars, MaxFileLen)
    /\ graph = EmptyGraph
    /\ initial_proteins = <<>>
    /\ min_dist_treshold = 0
    /\ graph_list = <<>>
    /\ source_node = "A"
    /\ target_node = "A"
    /\ node_dist_threshold = 0
    /\ df = NoTable
    /\ center = "A"
    /\ radius = 0
    /\ heap = <<>>
    /\ files = {}
    /\ pc = "ready"
    /\ outcome = Raised("none")

\* a call of read_proteins_file on the drawn file
ReadProteinsFile ==
    /\ pc = "ready"
    /\ outcome' = read_proteins_file(protein_file)
    /\ pc' = "read_proteins_file"
    /\ UNCHANGED <<arguments, heap, files>>

NextRead == ReadProteinsFile

SpecRead == InitRead /\ [][NextRead]_vars

----------------------------------------------------------------------------
(* Claims about read_proteins_file, checked under SpecRead *)

\* the lines of the drawn file, each without the whitespace at its ends
StrippedLines ==
    LET lines == readlines(protein_file, 1, <<>>)
    IN  [i \in 1..Len(lines) |-> strip(lines[i])]

\* C20: read_proteins_file returns the stripped lines of the file that are
\* not blank, in file order: the returned list holds no empty string.
C20_BlankLinesLeftOut ==
    pc = "read_proteins_file" =>
        /\ outcome.raised = "none"
        /\ \A i \in DOMAIN outcome.returned[1] : outcome.returned[1][i] # <<>>
        /\ outcome.returned[1] = SelectSeq(StrippedLines, LAMBDA token : token # <<>>)

----------------------------------------------------------------------------
(* filter_by_distance applied to its own result (add_paralogs.main filters a
   graph that string_db_combined_graph.main stored after filtering it) *)

\* a second call of filter_by_distance, on the graph the first call returned,
\* with the same initial_proteins and min_dist_treshold
FilterByDistanceAgain ==
    /\ pc = "filter_by_distance"
    /\ outcome.raised = "none"
    /\ outcome' = filter_by_distance(outcome.returned[1], initial_proteins,
                                     min_dist_treshold)
    /\ pc' = "filter_by_distance again"
    /\ UNCHANGED <<arguments, heap, files>>

NextRefilter == FilterByDistance \/ FilterByDistanceAgain

SpecRefilter == InitFilter /\ [][NextRefilter]_vars

----------------------------------------------------------------------------
(* Claims about the repeated filtering, checked under SpecRefilter *)

\* the second call of filter_by_distance returned a graph
RefilterReturned == pc = "filter_by_distance again" /\ outcome.raised = "none"

\* C21: filter_by_distance is idempotent for a fixed seed list and threshold:
\* whenever the first filtering returned a graph, filtering that graph again
\* returns a graph with the same node set and the same edge set.
C21_FilterIdempotent ==
    [][(pc = "filter_by_distance" /\ pc' = "filter_by_distance again") =>
           /\ outcome'.raised = "none"
           /\ outcome'.returned[1].nodes = outcome.returned[1].nodes
           /\ EdgeSet(outcome'.returned[1]) = EdgeSet(outcome.returned[1])]_vars

\* a graph was filtered twice where the first filtering removed a node that a
\* seed reaches and kept a node that is not a seed, with an edge left
C21_Witness ==
    /\ RefilterReturned
    /\ min_dist_treshold >= 1
    /\ \E s \in SeedSet \cap graph.nodes :
           Reach(graph, {s}, {s}) \ outcome.returned[1].nodes # {}
    /\ outcome.returned[1].nodes \ SeedSet # {}
    /\ EdgeSet(outcome.returned[1]) # {}

----------------------------------------------------------------------------
(* Claims about the two get_paths against each other, checked under SpecPaths *)

\* what the get_paths that was not called returns on the same arguments
OtherGetPaths ==
    IF pc = "string_db_parser.get_paths"
    THEN string_db_parser_single_get_paths(graph, source_node, target_node,
                                           node_dist_threshold)
    ELSE string_db_parser_get_paths(graph, source_node, target_node,
                                    node_dist_threshold)

\* C22: for connected source and target and 2 < max_nodes < 10,
\* string_db_parser.get_paths (all simple paths, then those of at most
\* max_nodes + 1 nodes) and string_db_parser_single.get_paths (edge cutoff
\* max_nodes) return the same set of paths.
C22_SamePathSets ==
    (/\ PathsCalled
     /\ 2 < node_dist_threshold /\ node_dist_threshold < 10
     /\ Connected(graph, source_node, target_node)) =>
        /\ outcome.raised = "none"
        /\ OtherGetPaths.raised = "none"
        /\ Range(outcome.returned[1]) = Range(OtherGetPaths.returned[1])

\* a call on connected source and target where the bound matters: a simple
\* path of the graph is longer than max_nodes + 1 nodes, and a path is returned
C22_Witness ==
    /\ PathsCalled
    /\ 2 < node_dist_threshold /\ node_dist_threshold < 10
    /\ Connected(graph, source_node, target_node)
    /\ outcome.raised = "none"
    /\ outcome.returned[1] # <<>>
    /\ \E p \in SimplePaths(graph, source_node, target_node, Cardinality(graph.nodes)) :
           Len(p) > node_dist_threshold + 1

----------------------------------------------------------------------------
(* Claims about the connectivity of the extracted subgraph, checked under
   SpecExtract *)

\* get_inner_subgraph was called on the paths get_paths returned
Extracted == pc = "string_db_parser.get_inner_subgraph"

\* C23: whenever get_paths returns at least one path, the subgraph built from
\* the returned paths is connected and contains source and target; when it
\* returns no path because source and target, both nodes of the graph, are
\* farther apart than the bound, the subgraph has source and target as its only
\* nodes and no edge.
C23_ConnectedOrBareEnds ==
    Extracted =>
        /\ ReturnedPaths # <<>> =>
               /\ {source_node, target_node} \subseteq outcome.returned[1].nodes
               /\ is_connected(outcome.returned[1]) = Returned(TRUE)
        /\ (/\ ReturnedPaths = <<>>
            /\ source_node \in graph.nodes
            /\ target_node \in graph.nodes) =>
               /\ outcome.returned[1].nodes = {source_node, target_node}
               /\ EdgeSet(outcome.returned[1]) = {}

\* an extraction from at least two returned paths with two nodes inside one of
\* them, which leaves a node of the graph out of the subgraph
C23_Witness ==
    /\ Extracted
    /\ Len(ReturnedPaths) >= 2
    /\ \E i \in DOMAIN ReturnedPaths : Len(ReturnedPaths[i]) >= 4
    /\ outcome.returned[1].nodes # graph.nodes

====
